---------------------------- MODULE Spec2Model ----------------------------
(***************************************************************************)
(* Hopper (src/hopper.py): subnet classification of IPv4 address lines,    *)
(* the undirected connectivity graph built from edge lines, the derived    *)
(* inter-network adjacency and the breadth-first path search.              *)
(*                                                                         *)
(* A Python str is a sequence of one-character strings; a file is a        *)
(* sequence of lines.                                                      *)
(***************************************************************************)
EXTENDS Integers, Sequences, FiniteSets, TLC

VARIABLES
    subnet_mask,         \* self.subnet_mask: the mask string, set at construction
    ip_to_network,       \* self.ip_to_network: address -> network string
    network_map,         \* self.network_map: network string -> list of addresses
    network_labels,      \* self.network_labels: network string -> label
    graph,               \* self.graph: address -> set of neighbour addresses
    connected_networks,  \* self.connected_networks: network -> set of networks
    pc,                  \* "idle", or "find_path" while a search is in its loop
    src, dst,            \* find_path's arguments
    visited, queue,      \* find_path's locals
    expanded,            \* how often the running search enqueued each node's neighbours
    result,              \* what the last find_path returned
    data,                \* the document the last export_json wrote
    op, arg,             \* the last operation that returned, and its input
    before               \* the session's collections when that operation was called

vars == <<subnet_mask, ip_to_network, network_map, network_labels, graph,
          connected_networks, pc, src, dst, visited, queue, expanded, result,
          data, op, arg, before>>

-----------------------------------------------------------------------------
(* Python str primitives used by load_ips and load_edges.                  *)

\* str.strip() with no argument removes these characters from both ends
Whitespace == {" ", "\t", "\n", "\r"}

RECURSIVE lstrip(_)
lstrip(s) == IF s # <<>> /\ Head(s) \in Whitespace THEN lstrip(Tail(s)) ELSE s

RECURSIVE rstrip(_)
rstrip(s) ==
    IF s # <<>> /\ s[Len(s)] \in Whitespace
    THEN rstrip(SubSeq(s, 1, Len(s) - 1))
    ELSE s

strip(s) == rstrip(lstrip(s))

\* c in s
Contains(s, c) == \E i \in 1..Len(s) : s[i] = c

\* s.split(sep): the pieces between the occurrences of sep, empty pieces kept
RECURSIVE SplitFrom(_, _, _)
SplitFrom(s, sep, cur) ==
    IF s = <<>> THEN <<cur>>
    ELSE IF Head(s) = sep THEN <<cur>> \o SplitFrom(Tail(s), sep, <<>>)
    ELSE SplitFrom(Tail(s), sep, Append(cur, Head(s)))

split(s, sep) == SplitFrom(s, sep, <<>>)

\* sep.join(parts)
RECURSIVE join(_, _)
join(sep, parts) ==
    IF parts = <<>> THEN <<>>
    ELSE IF Len(parts) = 1 THEN parts[1]
    ELSE parts[1] \o <<sep>> \o join(sep, Tail(parts))

Digits == <<"0", "1", "2", "3", "4", "5", "6", "7", "8", "9">>

IsDigit(c) == \E i \in 1..Len(Digits) : Digits[i] = c

DigitVal(c) == (CHOOSE i \in 1..Len(Digits) : Digits[i] = c) - 1

\* str.isascii() and str.isdigit(): non-empty and decimal digits only
IsDigitStr(s) == s # <<>> /\ \A i \in 1..Len(s) : IsDigit(s[i])

\* int(s, 10) of a digit string
RECURSIVE IntOf(_)
IntOf(s) ==
    IF s = <<>> THEN 0
    ELSE 10 * IntOf(SubSeq(s, 1, Len(s) - 1)) + DigitVal(s[Len(s)])

\* str(n) of a natural number
RECURSIVE StrOf(_)
StrOf(n) == IF n < 10 THEN <<Digits[n + 1]>>
            ELSE StrOf(n \div 10) \o <<Digits[(n % 10) + 1]>>

\* ord(c) of the characters the inputs are written in
Ord(c) ==
    CASE c = "\t" -> 9 [] c = "\n" -> 10 [] c = "\r" -> 13 [] c = " " -> 32
      [] c = "-" -> 45 [] c = "." -> 46 [] c = "/" -> 47
      [] IsDigit(c) -> 48 + DigitVal(c)
      [] c = "a" -> 97 [] c = "b" -> 98 [] c = "c" -> 99 [] c = "d" -> 100
      [] c = "x" -> 120

\* s < t for Python str: lexicographic by code point
RECURSIVE StrLess(_, _)
StrLess(s, t) ==
    IF t = <<>> THEN FALSE
    ELSE IF s = <<>> THEN TRUE
    ELSE IF Head(s) = Head(t) THEN StrLess(Tail(s), Tail(t))
    ELSE Ord(Head(s)) < Ord(Head(t))

-----------------------------------------------------------------------------
(* ipaddress.IPv4Network(f"{ip}/{mask}", strict=False) and str() of it.    *)
(* ValueError is the value Invalid.                                        *)

\* a str result that stands for ValueError (no parsed value is the empty str)
Invalid == <<>>

\* an int result that stands for ValueError
NoInt == -1

\* _parse_octet: a decimal of at most 3 digits, no leading zero, at most 255
ParseOctet(s) ==
    IF ~IsDigitStr(s) THEN NoInt
    ELSE IF Len(s) > 3 THEN NoInt
    ELSE IF s # <<"0">> /\ s[1] = "0" THEN NoInt
    ELSE IF IntOf(s) > 255 THEN NoInt
    ELSE IntOf(s)

\* _ip_int_from_string: the four octets, most significant first
IpFromString(s) ==
    IF s = <<>> THEN Invalid
    ELSE LET octets == split(s, ".") IN
         IF Len(octets) # 4 THEN Invalid
         ELSE IF \E i \in 1..4 : ParseOctet(octets[i]) = NoInt THEN Invalid
         ELSE [i \in 1..4 |-> ParseOctet(octets[i])]

\* the 32 bits of an address, most significant first
Bit(n, k) == (n \div (2 ^ k)) % 2

BitsOf(ip) == [i \in 1..32 |-> Bit(ip[((i - 1) \div 8) + 1], 7 - ((i - 1) % 8))]

\* _prefix_from_ip_int: ones followed by zeroes, else ValueError
PrefixFromBits(bits) ==
    LET ones == {n \in 0..32 : \A i \in 1..32 : bits[i] = (IF i <= n THEN 1 ELSE 0)}
    IN IF ones = {} THEN NoInt ELSE CHOOSE n \in ones : TRUE

\* _prefix_from_prefix_string
PrefixFromPrefixString(s) ==
    IF ~IsDigitStr(s) THEN NoInt
    ELSE IF IntOf(s) > 32 THEN NoInt
    ELSE IntOf(s)

\* _prefix_from_ip_string: a netmask, or else a hostmask
PrefixFromIpString(s) ==
    LET ip == IpFromString(s) IN
    IF ip = Invalid THEN NoInt
    ELSE IF PrefixFromBits(BitsOf(ip)) # NoInt THEN PrefixFromBits(BitsOf(ip))
    ELSE PrefixFromBits([i \in 1..32 |-> 1 - BitsOf(ip)[i]])

\* _make_netmask: the prefix length of a mask string
MakeNetmask(mask) ==
    IF PrefixFromPrefixString(mask) # NoInt THEN PrefixFromPrefixString(mask)
    ELSE PrefixFromIpString(mask)

\* octet i of the netmask of a prefix length
NetmaskOctet(prefixlen, i) ==
    LET k == IF prefixlen - 8 * (i - 1) < 0 THEN 0
             ELSE IF prefixlen - 8 * (i - 1) > 8 THEN 8
             ELSE prefixlen - 8 * (i - 1)
    IN 256 - 2 ^ (8 - k)

\* a & b on octets
RECURSIVE BitAnd(_, _)
BitAnd(a, b) ==
    IF a = 0 \/ b = 0 THEN 0
    ELSE (a % 2) * (b % 2) + 2 * BitAnd(a \div 2, b \div 2)

\* str(IPv4Network(ip + "/" + mask, strict=False)), or Invalid
IPv4Network(ip, mask) ==
    LET parts == split(ip \o <<"/">> \o mask, "/") IN
    IF Len(parts) > 2 THEN Invalid
    ELSE LET addr == IpFromString(parts[1])
             prefixlen == MakeNetmask(parts[2])
         IN IF addr = Invalid \/ prefixlen = NoInt THEN Invalid
            ELSE join(".", [i \in 1..4 |->
                                StrOf(BitAnd(addr[i], NetmaskOctet(prefixlen, i)))])
                 \o <<"/">> \o StrOf(prefixlen)

-----------------------------------------------------------------------------
(* Inputs.                                                                 *)

\* the files of at most n lines drawn from a set of lines
Files(lines, n) == UNION {[1..k -> lines] : k \in 0..n}

Ten0(o3, o4) == <<"1", "0", ".", "0", ".">> \o o3 \o <<".">> \o o4

Ip1 == Ten0(<<"0">>, <<"1">>)    \* 10.0.0.1
Ip2 == Ten0(<<"0">>, <<"2">>)    \* 10.0.0.2
Ip5 == Ten0(<<"1">>, <<"5">>)    \* 10.0.1.5
HostX == <<"x">>                 \* a node that is no IPv4 address
HostZ == <<"z">>                 \* an address no edge line names

EdgeLine(a, b) == a \o <<"-">> \o b

\* the mask strings a session is constructed with: the default, a prefix
\* length, and one that is no netmask
Mask24 == <<"2", "5", "5", ".", "2", "5", "5", ".", "2", "5", "5", ".", "0">>
Masks == {Mask24, <<"1", "6">>, <<"2", "5", "5", ".", "0", ".", "2", "5", "5", ".", "0">>}

\* lines of an IP file: three addresses (one also wrapped in whitespace), a
\* blank line and an octet out of range
IpLines == {Ip1, Ip2, <<" ">> \o Ip2 \o <<"\n">>, Ip5, <<"\n">>,
            Ten0(<<"0">>, <<"2", "5", "6">>)}

\* lines of an edge file: edges, a reversed edge wrapped in whitespace, a
\* line without separator, one with two separators and one whose first
\* token is empty
EdgeLines == {EdgeLine(Ip1, Ip2),
              <<" ">> \o Ip2 \o <<" ", "-", " ">> \o Ip1 \o <<"\n">>,
              EdgeLine(Ip2, Ip5),
              <<"b", "a", "d", "l", "i", "n", "e">>,
              <<"a", "-", "b", "-", "c">>,
              EdgeLine(<<>>, Ip1)}

\* the IP lines that are addresses
NetIpLines == {Ip1, Ip2, Ip5}

\* edge lines between registered and unregistered addresses
NetEdgeLines == {EdgeLine(Ip1, Ip2), EdgeLine(Ip2, Ip5), EdgeLine(Ip5, HostX),
                 EdgeLine(Ip2, Ip2)}

\* edge lines of a graph with a triangle, a tail and a self-loop
PathEdgeLines == {EdgeLine(Ip1, Ip2), EdgeLine(Ip2, Ip5), EdgeLine(Ip1, Ip5),
                  EdgeLine(Ip5, HostX), EdgeLine(HostX, HostX)}

\* edge lines of a triangle with a self-loop on one corner
CycleEdgeLines == {EdgeLine(Ip1, Ip2), EdgeLine(Ip2, Ip5), EdgeLine(Ip1, Ip5),
                   EdgeLine(Ip1, Ip1)}

\* edge lines with a link in both directions and a self-loop
ExportEdgeLines == {EdgeLine(Ip1, Ip2), EdgeLine(Ip2, Ip1), EdgeLine(Ip2, Ip5),
                    EdgeLine(HostX, HostX)}

\* the addresses a path is asked for
QueryAddrs == {Ip1, Ip5, HostX, HostZ}

\* an IP file of addresses of different /24 networks, 10.0.0.1, 10.0.1.1,
\* ..., one more than there are letters
ManyIps == [k \in 1..27 |-> Ten0(StrOf(k - 1), <<"1">>)]

\* the IP files that are a part of that file, as it is or backwards
LabelFiles ==
    UNION {{SubSeq(ManyIps, i, j),
            [k \in 1..(j - i + 1) |-> ManyIps[j + 1 - k]]} :
           <<i, j>> \in {p \in (1..Len(ManyIps)) \X (1..Len(ManyIps)) : p[1] <= p[2]}}

\* the address strings the IP lines hold
IpStrings == {strip(line) : line \in IpLines} \cup {ManyIps[k] : k \in 1..Len(ManyIps)}

\* IPv4Network over the masks and address strings above, computed once
NetworkOf == [mask \in Masks |-> [ip \in IpStrings |-> IPv4Network(ip, mask)]]

-----------------------------------------------------------------------------
(* The session object.                                                     *)

\* d.get(k, default) of a dict, and d[k] of a defaultdict read without insertion
Get(d, k, default) == IF k \in DOMAIN d THEN d[k] ELSE default

\* d[k] = v
Put(d, k, v) == [x \in DOMAIN d \cup {k} |-> IF x = k THEN v ELSE d[x]]

\* the collections of the session, as one value
Snapshot == [graph |-> graph, ip_to_network |-> ip_to_network,
             network_map |-> network_map, network_labels |-> network_labels,
             connected_networks |-> connected_networks]

\* no file has been written
NoFile == [file |-> "none"]

\* find_path returned None
None == [ret |-> "None"]

\* find_path returned the list p
Path(p) == [ret |-> "list", path |-> p]

\* no search is running: find_path's locals do not exist
NoLocals ==
    src = <<>> /\ dst = <<>> /\ visited = {} /\ queue = <<>> /\ expanded = <<>>

\* Hopper.__init__
Construct(mask) ==
    /\ subnet_mask = mask
    /\ ip_to_network = <<>>
    /\ network_map = <<>>
    /\ network_labels = <<>>
    /\ graph = <<>>
    /\ connected_networks = <<>>
    /\ pc = "idle"
    /\ NoLocals
    /\ result = None
    /\ data = NoFile
    /\ op = "init"
    /\ arg = <<>>
    /\ before = Snapshot

-----------------------------------------------------------------------------
(* load_ips                                                                *)

\* a bug: an address already in the list is not appended again
AppendMemberOnce(ips, ip) ==
    IF \E i \in 1..Len(ips) : ips[i] = ip THEN ips ELSE Append(ips, ip)

\* line 36: self.network_map[net_str].append(ip)
AppendMember(ips, ip) == Append(ips, ip)

\* one pass of the loop over the lines of the IP file: r is the pair of
\* network_map and ip_to_network
LoadIpsLine(r, line) ==
    LET ip == strip(line)
        net_str == NetworkOf[subnet_mask][ip]
    IN IF ip = <<>> THEN r
       ELSE IF net_str = Invalid THEN r
       ELSE [network_map |-> Put(r.network_map, net_str,
                                 AppendMember(Get(r.network_map, net_str, <<>>), ip)),
             ip_to_network |-> Put(r.ip_to_network, ip, net_str)]

\* a bug: the first line that is blank or does not parse ends the batch
RECURSIVE LoadIpsLinesAbort(_, _)
LoadIpsLinesAbort(r, lines) ==
    IF lines = <<>> THEN r
    ELSE IF LoadIpsLine(r, Head(lines)) = r THEN r
    ELSE LoadIpsLinesAbort(LoadIpsLine(r, Head(lines)), Tail(lines))

RECURSIVE LoadIpsLines(_, _)
LoadIpsLines(r, lines) ==
    IF lines = <<>> THEN r
    ELSE LoadIpsLines(LoadIpsLine(r, Head(lines)), Tail(lines))

\* chr(n) for the code points from ord('A') on
Chars == <<"A", "B", "C", "D", "E", "F", "G", "H", "I", "J", "K", "L", "M",
           "N", "O", "P", "Q", "R", "S", "T", "U", "V", "W", "X", "Y", "Z",
           "[">>

Chr(n) == Chars[n - 64]

\* the index of a key in sorted(keys)
SortedIndex(keys, k) == Cardinality({j \in keys : StrLess(j, k)})

\* f"Network {chr(ord('A') + idx)}"
Label(idx) == <<"N", "e", "t", "w", "o", "r", "k", " ", Chr(65 + idx)>>

\* the labelling loop: every key of network_map gets the label of its rank
GenerateLabels(labels, nmap) ==
    [n \in DOMAIN labels \cup DOMAIN nmap |->
        IF n \in DOMAIN nmap THEN Label(SortedIndex(DOMAIN nmap, n))
        ELSE labels[n]]

load_ips(ip_file) ==
    /\ pc = "idle"
    /\ LET r == LoadIpsLines([network_map |-> network_map,
                              ip_to_network |-> ip_to_network], ip_file)
       IN /\ network_map' = r.network_map
          /\ ip_to_network' = r.ip_to_network
          /\ network_labels' = GenerateLabels(network_labels, r.network_map)
    /\ op' = "load_ips"
    /\ arg' = ip_file
    /\ before' = Snapshot
    /\ UNCHANGED <<subnet_mask, graph, connected_networks, pc, src, dst,
                   visited, queue, expanded, result, data>>

-----------------------------------------------------------------------------
(* load_edges                                                              *)

\* a bug: self.graph[a] = {b}, the neighbours so far are lost
AddNeighborAssign(g, a, b) == Put(g, a, {b})

\* self.graph[a].add(b)
AddNeighbor(g, a, b) == Put(g, a, Get(g, a, {}) \cup {b})

\* a bug: line 64 is missing, the edge is stored in one direction
AddEdgeOneWay(g, ip1, ip2) == AddNeighbor(g, ip1, ip2)

\* lines 63-64: both directions of the edge
AddEdge(g, ip1, ip2) == AddNeighbor(AddNeighbor(g, ip1, ip2), ip2, ip1)

\* a bug: "if len(part) < 2", extra tokens are let through
TooFewTokens(part) == Len(part) < 2

\* line 59: the line is dropped when this is true
WrongTokenCount(part) == Len(part) # 2

\* one pass of the loop over the lines of the edge file
LoadEdgesLine(g, line) ==
    IF ~Contains(line, "-") THEN g
    ELSE LET part == split(strip(line), "-") IN
         IF WrongTokenCount(part) THEN g
         ELSE AddEdge(g, strip(part[1]), strip(part[2]))

RECURSIVE LoadEdgesLines(_, _)
LoadEdgesLines(g, lines) ==
    IF lines = <<>> THEN g
    ELSE LoadEdgesLines(LoadEdgesLine(g, Head(lines)), Tail(lines))

\* a bug: "if net2", an edge inside one network links it to itself
AnyNetwork(net1, net2) == net2 # <<>>

\* line 73: net2 and net2 != net1
CrossesNetworks(net1, net2) == net2 # <<>> /\ net2 # net1

\* the pairs (net1, net2) the loop over graph.items() links; .get() of a
\* missing address is None, which "not net1" treats like the empty str
NetworkLinks(g, ipnet) ==
    LET Net(ip) == Get(ipnet, ip, <<>>)
        Neighbors == UNION {g[k] : k \in DOMAIN g}
    IN {<<Net(e[1]), Net(e[2])>> : e \in
           {f \in (DOMAIN g) \X Neighbors :
               /\ Net(f[1]) # <<>>
               /\ f[2] \in g[f[1]]
               /\ CrossesNetworks(Net(f[1]), Net(f[2]))}}

\* "Build network connections": both directions of every link are added
BuildConnections(cn, g, ipnet) ==
    LET links == NetworkLinks(g, ipnet)
        nets == {l[1] : l \in links} \cup {l[2] : l \in links}
    IN [n \in DOMAIN cn \cup nets |->
           Get(cn, n, {}) \cup {l[2] : l \in {k \in links : k[1] = n}}
                         \cup {l[1] : l \in {k \in links : k[2] = n}}]

load_edges(edge_file) ==
    /\ pc = "idle"
    /\ graph' = LoadEdgesLines(graph, edge_file)
    /\ connected_networks' =
           BuildConnections(connected_networks, graph', ip_to_network)
    /\ op' = "load_edges"
    /\ arg' = edge_file
    /\ before' = Snapshot
    /\ UNCHANGED <<subnet_mask, ip_to_network, network_map, network_labels,
                   pc, src, dst, visited, queue, expanded, result, data>>

-----------------------------------------------------------------------------
(* find_path: one action per pass of the while loop                        *)

\* the orders in which a set can be iterated
Orders(S) ==
    {o \in [1..Cardinality(S) -> S] : \A i, j \in 1..Cardinality(S) :
                                          i # j => o[i] # o[j]}

\* a bug: deque(), the search starts with nothing to expand
StartQueueEmpty(s) == <<>>

\* a bug: line 98 is missing, no node is ever marked
MarkVisitedNever(vis, node) == vis

\* line 98: visited.add(node)
MarkVisited(vis, node) == vis \cup {node}

\* line 86: deque([[src]])
StartQueue(s) == <<<<s>>>>

\* a bug: queue.appendleft(...), the search goes depth first
EnqueueLeft(q, path, order) ==
    [i \in 1..Len(order) |-> Append(path, order[i])] \o q

\* a bug: queue.append([neighbor]), the way to the neighbour is dropped
EnqueueBare(q, path, order) ==
    q \o [i \in 1..Len(order) |-> <<order[i]>>]

\* line 101: queue.append(path + [neighbor]), for the neighbours in order
Enqueue(q, path, order) ==
    q \o [i \in 1..Len(order) |-> Append(path, order[i])]

\* lines 85-86: visited = set(); queue = deque([[src]])
find_path_call(s, d) ==
    /\ pc = "idle"
    /\ pc' = "find_path"
    /\ src' = s
    /\ dst' = d
    /\ visited' = {}
    /\ queue' = StartQueue(s)
    /\ expanded' = <<>>
    /\ before' = Snapshot
    /\ UNCHANGED <<subnet_mask, ip_to_network, network_map, network_labels,
                   graph, connected_networks, result, data, op, arg>>

\* the return statements: the locals die, the caller gets r
Return(r) ==
    /\ pc' = "idle"
    /\ result' = r
    /\ op' = "find_path"
    /\ arg' = <<src, dst>>
    /\ src' = <<>>
    /\ dst' = <<>>
    /\ visited' = {}
    /\ queue' = <<>>
    /\ expanded' = <<>>

\* lines 88-101: one pass of the loop
find_path_loop ==
    /\ pc = "find_path"
    /\ queue # <<>>
    /\ LET path == Head(queue)
           node == path[Len(path)]
       IN IF node = dst
          THEN \* lines 92-95
               /\ Return(Path(path))
               /\ UNCHANGED graph
          ELSE IF node \notin visited
          THEN \* lines 97-101; self.graph[node] inserts a missing key
               /\ visited' = MarkVisited(visited, node)
               /\ graph' = Put(graph, node, Get(graph, node, {}))
               /\ expanded' = Put(expanded, node, Get(expanded, node, 0) + 1)
               /\ \E order \in Orders({n \in Get(graph, node, {}) :
                                            n \notin visited'}) :
                      queue' = Enqueue(Tail(queue), path, order)
               /\ UNCHANGED <<pc, src, dst, result, op, arg>>
          ELSE /\ queue' = Tail(queue)
               /\ UNCHANGED <<graph, pc, src, dst, visited, expanded, result,
                              op, arg>>
    /\ UNCHANGED <<subnet_mask, ip_to_network, network_map, network_labels,
                   connected_networks, data, before>>

\* lines 103-104: the queue ran empty
find_path_none ==
    /\ pc = "find_path"
    /\ queue = <<>>
    /\ Return(None)
    /\ UNCHANGED <<subnet_mask, ip_to_network, network_map, network_labels,
                   graph, connected_networks, data, before>>

-----------------------------------------------------------------------------
(* Bounds.                                                                 *)

MaxEdgeLines == 2      \* lines of an edge file, where edge files are the subject
MaxIpLines == 2        \* lines of an IP file
MaxIps == 2            \* addresses a session holds over all its networks
MaxFewLines == 1       \* lines of an edge file, where its parsing is not the subject

RECURSIVE SumLen(_, _)
SumLen(f, keys) ==
    IF keys = {} THEN 0
    ELSE LET k == CHOOSE x \in keys : TRUE
         IN Len(f[k]) + SumLen(f, keys \ {k})

\* sum(len(ips) for ips in self.network_map.values())
TotalIps(nmap) == SumLen(nmap, DOMAIN nmap)

-----------------------------------------------------------------------------
(* export_json                                                             *)

RECURSIVE SumCard(_, _)
SumCard(f, keys) ==
    IF keys = {} THEN 0
    ELSE LET k == CHOOSE x \in keys : TRUE
         IN Cardinality(f[k]) + SumCard(f, keys \ {k})

\* line 114: sum(len(neighbors) for neighbors in self.graph.values()) // 2
TotalConnections(g) == SumCard(g, DOMAIN g) \div 2

\* lines 109-116; generated_at, the time of the export, is left out
Metadata ==
    [subnet_mask |-> subnet_mask,
     total_networks |-> Cardinality(DOMAIN network_map),
     total_ips |-> TotalIps(network_map),
     total_connections |-> TotalConnections(graph)]

\* lines 122-128: one entry per network; connected_to lists a set in the
\* order conn gives it
NetworkEntries(conn) ==
    [network \in DOMAIN network_map |->
        [label |-> Get(network_labels, network, network),
         ips |-> network_map[network],
         ip_count |-> Len(network_map[network]),
         connected_to |-> conn[network]]]

\* the orders in which line 127 can list each network's neighbours
ConnectedOrders ==
    LET lists == UNION {Orders(Get(connected_networks, n, {})) :
                            n \in DOMAIN network_map}
    IN {conn \in [DOMAIN network_map -> lists] :
            \A n \in DOMAIN network_map :
                conn[n] \in Orders(Get(connected_networks, n, {}))}

\* line 132: tuple(sorted([node, neighbor]))
SortedPair(node, neighbor) ==
    IF StrLess(neighbor, node) THEN <<neighbor, node>> ELSE <<node, neighbor>>

\* "Unknown", the network of an address that is in no IP file
Unknown == <<"U", "n", "k", "n", "o", "w", "n">>

\* lines 135-141: the entry of an edge; .get(...) without a default gives
\* None, here the empty str, which is no network
EdgeEntry(edge) ==
    [source |-> edge[1],
     target |-> edge[2],
     source_network |-> Get(ip_to_network, edge[1], Unknown),
     target_network |-> Get(ip_to_network, edge[2], Unknown),
     is_inter_network |-> Get(ip_to_network, edge[1], <<>>)
                              # Get(ip_to_network, edge[2], <<>>)]

\* lines 131-141 for one node, its neighbours iterated in the order given:
\* acc holds processed_edges and data["edges"]
RECURSIVE ExportNeighbors(_, _, _)
ExportNeighbors(node, neighbors, acc) ==
    IF neighbors = <<>> THEN acc
    ELSE LET edge == SortedPair(node, Head(neighbors))
         IN ExportNeighbors(node, Tail(neighbors),
                IF edge \notin acc.processed_edges
                THEN [processed_edges |-> acc.processed_edges \cup {edge},
                      edges |-> Append(acc.edges, EdgeEntry(edge))]
                ELSE acc)

\* lines 129-141: what the loops can leave, the nodes iterated in the order
\* given and each neighbour set in any order
RECURSIVE ExportEdges(_, _)
ExportEdges(nodes, acc) ==
    IF nodes = <<>> THEN {acc}
    ELSE UNION {ExportEdges(Tail(nodes),
                            ExportNeighbors(Head(nodes), neighbors, acc)) :
                    neighbors \in Orders(graph[Head(nodes)])}

\* lines 106-146; the model keeps no insertion order of the graph's keys, the
\* nodes are listed and iterated in any one order
export_json ==
    /\ pc = "idle"
    /\ \E nodes \in Orders(DOMAIN graph), conn \in ConnectedOrders :
         \E acc \in ExportEdges(nodes, [processed_edges |-> {}, edges |-> <<>>]) :
             data' = [file |-> "json",
                      metadata |-> Metadata,
                      networks |-> NetworkEntries(conn),
                      nodes |-> nodes,
                      edges |-> acc.edges]
    /\ op' = "export_json"
    /\ arg' = <<>>
    /\ before' = Snapshot
    /\ UNCHANGED <<subnet_mask, ip_to_network, network_map, network_labels,
                   graph, connected_networks, pc, src, dst, visited, queue,
                   expanded, result>>

-----------------------------------------------------------------------------
(* Specifications.                                                         *)

Init == \E mask \in Masks : Construct(mask)

InitDefault == Construct(Mask24)

\* edge files only
NextEdges == \E f \in Files(EdgeLines, MaxEdgeLines) : load_edges(f)

SpecEdges == InitDefault /\ [][NextEdges]_vars

\* IP files only
NextIps ==
    \E f \in Files(IpLines, MaxIpLines) :
        load_ips(f) /\ TotalIps(network_map') <= MaxIps

SpecIps == Init /\ [][NextIps]_vars

\* one IP file of many networks, loaded into a new session
NextLabels ==
    \E f \in LabelFiles : network_map = <<>> /\ load_ips(f)

SpecLabels == InitDefault /\ [][NextLabels]_vars

\* IP files and edge files, in any order
NextNet ==
    \/ \E f \in Files(NetIpLines, MaxFewLines) :
          load_ips(f) /\ TotalIps(network_map') <= MaxIps
    \/ \E f \in Files(NetEdgeLines, MaxFewLines) : load_edges(f)

SpecNet == Init /\ [][NextNet]_vars

\* edge files and path searches
NextPath ==
    \/ \E f \in Files(PathEdgeLines, MaxFewLines) : load_edges(f)
    \/ \E s, d \in QueryAddrs : find_path_call(s, d)
    \/ find_path_loop
    \/ find_path_none

SpecPath == InitDefault /\ [][NextPath]_vars

\* edge files of a cyclic graph and searches in it, to a node of the cycle
\* or to one out of reach
NextCycle ==
    \/ \E f \in Files(CycleEdgeLines, MaxFewLines) : load_edges(f)
    \/ \E s \in {Ip1, Ip5}, d \in {Ip5, HostZ} : find_path_call(s, d)
    \/ find_path_loop
    \/ find_path_none

\* find_path is synchronous: once called, its loop runs on until it returns
SpecCycle ==
    /\ InitDefault
    /\ [][NextCycle]_vars
    /\ WF_vars(find_path_loop)
    /\ WF_vars(find_path_none)

\* edge files and exports
NextExport ==
    \/ \E f \in Files(ExportEdgeLines, MaxFewLines) : load_edges(f)
    \/ export_json

SpecExport == InitDefault /\ [][NextExport]_vars

\* the whole session: IP files, edge files, path searches and exports
Next ==
    \/ export_json
    \/ \E f \in Files(NetIpLines, MaxFewLines) :
          load_ips(f) /\ TotalIps(network_map') <= MaxIps
    \/ \E f \in Files(NetEdgeLines, MaxFewLines) : load_edges(f)
    \/ \E s, d \in QueryAddrs : find_path_call(s, d)
    \/ find_path_loop
    \/ find_path_none

Spec == Init /\ [][Next]_vars

-----------------------------------------------------------------------------
(* Properties of the graph built by load_edges (SpecEdges).                *)

\* the number of separators of a line
Separators(line) == Cardinality({i \in 1..Len(line) : line[i] = "-"})

\* a line that has one separator, hence two tokens
TwoTokens(line) == Separators(line) = 1

\* the two trimmed tokens of such a line
TokensOf(line) ==
    LET i == CHOOSE k \in 1..Len(line) : line[k] = "-"
    IN <<strip(SubSeq(line, 1, i - 1)), strip(SubSeq(line, i + 1, Len(line)))>>

\* the edge of the line was in the graph when the file was loaded
EdgeWasPresent(line) ==
    /\ TwoTokens(line)
    /\ TokensOf(line)[2] \in Get(before.graph, TokensOf(line)[1], {})

\* C4: in every state reached by load_edges calls, whatever the lines, b is
\* a neighbour of a if and only if a is a neighbour of b
C4_Symmetric ==
    \A a \in DOMAIN graph : \A b \in graph[a] :
        b \in DOMAIN graph /\ a \in graph[b]

\* a file that mixes a malformed line with an edge was loaded, and the graph
\* holds an edge between two different addresses
C4_Witness ==
    /\ op = "load_edges"
    /\ \E i, j \in 1..Len(arg) : ~TwoTokens(arg[i]) /\ EdgeWasPresent(arg[j])
    /\ \E a \in DOMAIN graph : \E b \in graph[a] : a # b

\* C5: a file whose lines are all edges the graph already had, in either
\* direction, leaves the node set and every neighbour set as they were
C5_Idempotent ==
    (/\ op = "load_edges"
     /\ arg # <<>>
     /\ \A i \in 1..Len(arg) : EdgeWasPresent(arg[i]))
    => graph = before.graph

\* an edge was loaded again, written in the other direction, into a graph
\* where one of its ends has a second neighbour
C5_Witness ==
    /\ op = "load_edges"
    /\ arg # <<>>
    /\ \A i \in 1..Len(arg) : EdgeWasPresent(arg[i])
    /\ \E i \in 1..Len(arg) :
          /\ TokensOf(arg[i]) = <<Ip2, Ip1>>
          /\ Cardinality(before.graph[Ip2]) > 1

\* the lines of the last file that have two tokens
TwoTokenLines == SelectSeq(arg, TwoTokens)

\* C6: a line without separator or with more than one is skipped: the graph
\* after a file is the graph after the file without those lines, so a file
\* of such lines alone changes nothing and the lines after one are loaded
C6_MalformedSkipped ==
    op = "load_edges" =>
        /\ graph = LoadEdgesLines(before.graph, TwoTokenLines)
        /\ TwoTokenLines = <<>> => graph = before.graph

\* a file of a line with two separators followed by a new edge was loaded
C6_Witness ==
    /\ op = "load_edges"
    /\ Len(arg) = 2
    /\ Separators(arg[1]) = 2
    /\ TwoTokens(arg[2])
    /\ graph # before.graph

\* C7: the empty string is never a node of the graph nor a neighbour
C7_NoEmptyNode ==
    /\ <<>> \notin DOMAIN graph
    /\ \A a \in DOMAIN graph : <<>> \notin graph[a]

-----------------------------------------------------------------------------
(* Properties of find_path (SpecPath).                                     *)

\* the nodes within k edges of s
RECURSIVE Within(_, _)
Within(s, k) ==
    IF k = 0 THEN {s}
    ELSE LET W == Within(s, k - 1)
         IN W \cup UNION {Get(graph, n, {}) : n \in W}

\* d can be reached from s
Reachable(s, d) == d \in Within(s, Cardinality(DOMAIN graph))

\* the least number of edges from s to a reachable d
Distance(s, d) ==
    CHOOSE k \in 0..Cardinality(DOMAIN graph) :
        d \in Within(s, k) /\ \A j \in 0..(k - 1) : d \notin Within(s, j)

\* find_path(src, dst) has returned and nothing was called since
Returned == pc = "idle" /\ op = "find_path"

\* C1: the returned path has as many edges as the shortest distance from
\* src to dst, and None is returned exactly when dst cannot be reached
C1_ShortestPath ==
    Returned =>
        IF Reachable(arg[1], arg[2])
        THEN /\ result.ret = "list"
             /\ Len(result.path) - 1 = Distance(arg[1], arg[2])
        ELSE result = None

\* a path of two edges was returned where one of three edges exists too
C1_Witness ==
    /\ Returned
    /\ arg = <<Ip1, HostX>>
    /\ result.ret = "list"
    /\ Len(result.path) = 3
    /\ Ip2 \in Get(graph, Ip1, {})
    /\ Ip5 \in Get(graph, Ip2, {})

\* C2: a returned path is not empty, starts at src, ends at dst, and each
\* step of it is an edge of the graph
C2_PathWellFormed ==
    (Returned /\ result # None) =>
        /\ result.ret = "list"
        /\ result.path # <<>>
        /\ result.path[1] = arg[1]
        /\ result.path[Len(result.path)] = arg[2]
        /\ \A i \in 1..(Len(result.path) - 1) :
              result.path[i + 1] \in Get(graph, result.path[i], {})

\* a path of at least two edges was returned
C2_Witness == Returned /\ result # None /\ Len(result.path) >= 3

\* x appears in a loaded edge
KnownNode(x) == x \in DOMAIN graph /\ graph[x] # {}

\* C3: find_path(x, x) of a known node x returns the list of x alone
C3_Reflexive ==
    (Returned /\ arg[1] = arg[2] /\ KnownNode(arg[1])) =>
        result = Path(<<arg[1]>>)

\* find_path(x, x) has returned for a node with a self-loop and another
\* neighbour
C3_Witness ==
    /\ Returned
    /\ arg = <<HostX, HostX>>
    /\ HostX \in Get(graph, HostX, {})
    /\ Ip5 \in Get(graph, HostX, {})
    /\ result = Path(<<HostX>>)

-----------------------------------------------------------------------------
(* Properties of the registry and the adjacency (SpecNet).                 *)

\* the networks a state knows of
Networks ==
    DOMAIN connected_networks \cup DOMAIN network_map
        \cup {ip_to_network[ip] : ip \in DOMAIN ip_to_network}

\* an edge of the graph joins a registered address of n1 to one of n2
EdgeBetween(n1, n2) ==
    \E a \in DOMAIN graph : \E b \in graph[a] :
        /\ a \in DOMAIN ip_to_network
        /\ b \in DOMAIN ip_to_network
        /\ ip_to_network[a] = n1
        /\ ip_to_network[b] = n2

\* the adjacency is the one the graph and the registry determine
AdjacencyDerived ==
    \A n1, n2 \in Networks :
        n2 \in Get(connected_networks, n1, {})
            <=> (n1 # n2 /\ EdgeBetween(n1, n2))

\* C8: after load_edges, n2 is adjacent to n1 exactly when they differ and
\* an edge joins registered addresses of the two; so the adjacency is
\* symmetric and no network is adjacent to itself
C8_Adjacency ==
    op = "load_edges" =>
        /\ AdjacencyDerived
        /\ \A n1, n2 \in Networks :
              n2 \in Get(connected_networks, n1, {})
                  => n1 # n2 /\ n1 \in Get(connected_networks, n2, {})

\* load_edges returned with two networks linked, while the graph also has
\* an edge to an unregistered address and a self-loop on a registered one
C8_Witness ==
    /\ op = "load_edges"
    /\ \E n \in DOMAIN connected_networks : connected_networks[n] # {}
    /\ \E a \in DOMAIN graph : \E b \in graph[a] :
          a \in DOMAIN ip_to_network /\ b \notin DOMAIN ip_to_network
    /\ \E a \in DOMAIN graph : a \in graph[a] /\ a \in DOMAIN ip_to_network

\* C9: whenever the graph and the registry are both populated, the
\* adjacency is the one they determine
C9_NeverDiverges ==
    (DOMAIN graph # {} /\ DOMAIN ip_to_network # {}) => AdjacencyDerived

\* a line of the last IP file that load_ips records
ValidIpLine(line) ==
    strip(line) # <<>> /\ NetworkOf[subnet_mask][strip(line)] # Invalid

\* C10: the registry after an IP file is the registry after the file
\* without its blank and unparsable lines; an empty file adds nothing
C10_InvalidSkipped ==
    op = "load_ips" =>
        /\ [network_map |-> network_map, ip_to_network |-> ip_to_network]
              = LoadIpsLines([network_map |-> before.network_map,
                              ip_to_network |-> before.ip_to_network],
                             SelectSeq(arg, ValidIpLine))
        /\ arg = <<>> => /\ network_map = before.network_map
                         /\ ip_to_network = before.ip_to_network

\* an IP file of an unparsable line followed by an address was loaded, and
\* the address is registered
C10_Witness ==
    /\ op = "load_ips"
    /\ Len(arg) = 2
    /\ strip(arg[1]) # <<>>
    /\ ~ValidIpLine(arg[1])
    /\ ValidIpLine(arg[2])
    /\ strip(arg[2]) \in DOMAIN ip_to_network
    /\ strip(arg[2]) \notin DOMAIN before.ip_to_network

\* the trimmed lines of the last IP file that are addresses, in file order
ValidIps ==
    LET valid == SelectSeq(arg, ValidIpLine)
    IN [i \in 1..Len(valid) |-> strip(valid[i])]

\* the elements of a list
Elements(list) == {list[i] : i \in 1..Len(list)}

\* C11: load_ips appends to the member list of every network the valid
\* trimmed lines of that network, in file order and once per occurrence; so
\* the member count grows by the number of valid lines, and every valid
\* address is a member of the network ip_to_network gives it and of no other
C11_Members ==
    op = "load_ips" =>
        /\ \A n \in DOMAIN network_map \cup DOMAIN before.network_map :
              Get(network_map, n, <<>>) =
                  Get(before.network_map, n, <<>>) \o
                  SelectSeq(ValidIps, LAMBDA ip : NetworkOf[subnet_mask][ip] = n)
        /\ TotalIps(network_map) = TotalIps(before.network_map) + Len(ValidIps)
        /\ \A ip \in Elements(ValidIps) :
              /\ ip \in DOMAIN ip_to_network
              /\ \A n \in DOMAIN network_map :
                    ip \in Elements(network_map[n]) <=> n = ip_to_network[ip]

\* an IP file that holds the same address twice, once wrapped in
\* whitespace, was loaded and the address is listed twice
C11_Witness ==
    /\ op = "load_ips"
    /\ Len(arg) = 2
    /\ arg[1] # arg[2]
    /\ ValidIps = <<Ip2, Ip2>>
    /\ network_map[ip_to_network[Ip2]] = <<Ip2, Ip2>>

\* the letters A to Z
Letters == SubSeq(Chars, 1, 26)

\* the place of a network in the ascending order of the networks
Rank(n) == Cardinality({m \in DOMAIN network_map : StrLess(m, n)}) + 1

\* C12: every network has a label, the letter of A, B, C, ... at the
\* network's rank among the sorted networks, and no two networks share one
C12_LabelsAreLetters ==
    /\ \A n \in DOMAIN network_map :
          /\ n \in DOMAIN network_labels
          /\ Rank(n) <= Len(Letters)
          /\ network_labels[n] =
                <<"N", "e", "t", "w", "o", "r", "k", " ", Letters[Rank(n)]>>
    /\ \A n, m \in DOMAIN network_map :
          n # m => network_labels[n] # network_labels[m]

\* C13: a search that was called returns, whatever the graph (cycles,
\* self-loops, dst out of reach), and while it runs it enqueues the
\* neighbours of no node more than once
C13_Terminates ==
    /\ [](\A n \in DOMAIN expanded : expanded[n] <= 1)
    /\ (pc = "find_path") ~> (pc = "idle")

\* a search for an address out of reach has expanded every node of the
\* triangle and met a node again that it had expanded
C13_Witness ==
    /\ pc = "find_path"
    /\ dst = HostZ
    /\ {Ip1, Ip2, Ip5} \subseteq DOMAIN expanded
    /\ Ip1 \in Get(graph, Ip1, {})
    /\ queue # <<>>
    /\ Head(queue)[Len(Head(queue))] \in visited

\* C14: find_path is a pure query: when a search has returned, for
\* addresses of loaded edges or of none, the graph has the nodes and the
\* neighbour sets it had at the call, and the registry and the inter-network
\* adjacency are as they were
C14_PureQuery ==
    Returned =>
        /\ DOMAIN graph = DOMAIN before.graph
        /\ \A node \in DOMAIN before.graph : graph[node] = before.graph[node]
        /\ ip_to_network = before.ip_to_network
        /\ network_map = before.network_map
        /\ network_labels = before.network_labels
        /\ connected_networks = before.connected_networks

\* the addresses a and b are connected
Connected(a, b) == a \in DOMAIN graph /\ b \in graph[a]

\* the entries of the exported edge list that are the pair of a and b
EntriesOf(a, b) ==
    {i \in 1..Len(data.edges) :
        {data.edges[i].source, data.edges[i].target} = {a, b}}

\* C15: the exported edge list has every unordered pair of connected
\* addresses exactly once, a self-loop included, and nothing else, and
\* total_connections is the number of its entries
C15_EdgesOnce ==
    op = "export_json" =>
        /\ \A a \in DOMAIN graph : \A b \in graph[a] :
               Cardinality(EntriesOf(a, b)) = 1
        /\ \A i \in 1..Len(data.edges) :
               Connected(data.edges[i].source, data.edges[i].target)
        /\ data.metadata.total_connections = Len(data.edges)

=============================================================================
